---- MODULE Spec2Model ----
(***************************************************************************)
(* Height synchronisation between the script injected into the WebView     *)
(* (HEIGHT_CALCULATION_SCRIPT, in its debounced and its frame-aligned      *)
(* variant) and the React Native component KaTeXAutoHeightWebView.         *)
(*                                                                         *)
(* Lengths are integers counted in 1/PX of a layout pixel, so that the     *)
(* fractional heights getBoundingClientRect returns exist in the model.    *)
(* JavaScript values are records [t, n]: t is the kind of the value and n  *)
(* its magnitude when t = "num".                                           *)
(***************************************************************************)
EXTENDS Integers, Sequences, FiniteSets, TLC

\* ------------------------------------------------------------------ bounds
\* Sub-pixel resolution: one layout pixel is PX units.
PX == 2
\* Messages the bridge holds in flight at most.
MaxQueue == 1
\* Characters of a style value and entries of a style map at most.
MaxStrLen == 2
MaxEntries == 1
\* Messages in flight at most while the host's height feeds the measurement.
LoopQueue == 2
\* In the runs that settle: content changes, sendHeightUpdate calls and
\* minHeight changes at most, all together.
MaxEvents == 4

\* Timed runs: the clock stops at this many milliseconds after script start.
Horizon == 2500

\* ------------------------------------------------------- program constants
HEIGHT_THRESHOLD == 5

\* The debounce of sendHeightUpdate, the period of the KaTeX re-check and the
\* count after which it stops, of the debounced script.
DEBOUNCE_MS == 150
CHECK_INTERVAL_MS == 100
MAX_CHECKS == 20
STARTUP_BUFFER == 10
HOST_TOLERANCE == 1
DEFAULT_MIN_HEIGHT == 50

\* ------------------------------------------------------ JavaScript values
Num(n) == [t |-> "num", n |-> n]
Undefined == [t |-> "undefined", n |-> 0]
Null == [t |-> "null", n |-> 0]
NaN == [t |-> "nan", n |-> 0]
NegInfinity == [t |-> "-inf", n |-> 0]
NonNumericString == [t |-> "string", n |-> 0]

IsNum(v) == v.t = "num"

Px(n) == n * PX

Abs(n) == IF n < 0 THEN -n ELSE n

Max2(a, b) == IF a >= b THEN a ELSE b

\* Math.ceil on a finite length: the next whole pixel at or above n.
CeilUnits(n) == -(((-n) \div PX) * PX)

\* Math.ceil
MathCeil(v) == IF IsNum(v) THEN Num(CeilUnits(v.n)) ELSE v

\* ToNumber, as Math.max and the arithmetic operators apply it.
ToNumber(v) ==
    CASE v.t = "num" -> v
      [] v.t = "null" -> Num(0)
      [] v.t = "-inf" -> v
      [] OTHER -> NaN

\* Math.max(a, b) of two values.
MathMax(a, b) ==
    LET x == ToNumber(a)
        y == ToNumber(b)
    IN  CASE x.t = "nan" \/ y.t = "nan" -> NaN
          [] x.t = "-inf" -> y
          [] y.t = "-inf" -> x
          [] OTHER -> Num(Max2(x.n, y.n))

\* Math.abs(a - b) > limit, limit a finite length.
AbsDiffExceeds(a, b, limit) ==
    LET x == ToNumber(a)
        y == ToNumber(b)
    IN  CASE x.t = "nan" \/ y.t = "nan" -> FALSE
          [] x.t = "-inf" /\ y.t = "-inf" -> FALSE
          [] x.t = "-inf" \/ y.t = "-inf" -> TRUE
          [] OTHER -> Abs(x.n - y.n) > limit

\* The truthiness of a value in a condition.
Truthy(v) ==
    CASE v.t = "num" -> v.n /= 0
      [] v.t \in {"undefined", "null", "nan"} -> FALSE
      [] OTHER -> TRUE

\* JSON.stringify of a number field followed by JSON.parse: a non-finite number
\* is written as null.
JsonNumber(v) == IF IsNum(v) THEN v ELSE Null

\* ------------------------------------------------------------ the document
\* What the measuring code reads from the DOM. hasBody = FALSE is a document
\* whose body is null: every read through document.body throws.
Dom(hasBody, bs, ds, bo, do, bc, dc, br, hr, pageYOffset, elements, katex) ==
    [hasBody |-> hasBody,
     bodyScrollHeight |-> bs, docScrollHeight |-> ds,
     bodyOffsetHeight |-> bo, docOffsetHeight |-> do,
     bodyClientHeight |-> bc, docClientHeight |-> dc,
     bodyRectHeight |-> br, htmlRectHeight |-> hr,
     pageYOffset |-> pageYOffset,
     elements |-> elements, katex |-> katex]

RECURSIVE MaxBottom(_, _, _)
\* The forEach loops that keep the largest rect.bottom + window.pageYOffset.
MaxBottom(bottoms, pageYOffset, start) ==
    IF bottoms = <<>> THEN start
    ELSE LET bottom == Head(bottoms) + pageYOffset
         IN  MaxBottom(Tail(bottoms), pageYOffset,
                       IF bottom > start THEN bottom ELSE start)

\* heightCalculators of the debounced script.
ScrollHeightCalc(dom) == Max2(dom.bodyScrollHeight, dom.docScrollHeight)
OffsetHeightCalc(dom) == Max2(dom.bodyOffsetHeight, dom.docOffsetHeight)
ClientHeightCalc(dom) == Max2(dom.bodyClientHeight, dom.docClientHeight)
BoundingRectCalc(dom) == Max2(dom.bodyRectHeight, dom.htmlRectHeight)
DeepScanCalc(dom) == MaxBottom(dom.elements, dom.pageYOffset, 0)

RECURSIVE KaTeXFold(_, _, _)
KaTeXFold(nodes, pageYOffset, maxKatexBottom) ==
    IF nodes = <<>> THEN maxKatexBottom
    ELSE LET bottom == MaxBottom(Head(nodes).struts, pageYOffset,
                                 Head(nodes).bottom + pageYOffset)
         IN  KaTeXFold(Tail(nodes), pageYOffset,
                       IF bottom > maxKatexBottom THEN bottom ELSE maxKatexBottom)

\* calculateKaTeXHeight: null without KaTeX nodes.
CalculateKaTeXHeight(dom) ==
    IF dom.katex = <<>> THEN Null ELSE Num(KaTeXFold(dom.katex, dom.pageYOffset, 0))

\* heights.filter(h => h !== null && h > 0), then Math.max(...validHeights);
\* Math.max() of nothing is -Infinity.
MaxOfValid(heights) ==
    LET validHeights == { heights[i].n : i \in { j \in DOMAIN heights :
                              heights[j].t = "num" /\ heights[j].n > 0 } }
    IN  IF validHeights = {} THEN NegInfinity
        ELSE Num(CHOOSE m \in validHeights : \A h \in validHeights : m >= h)

MaxStrategyHeight(dom) ==
    MaxOfValid(<<Num(ScrollHeightCalc(dom)), Num(OffsetHeightCalc(dom)),
                 Num(ClientHeightCalc(dom)), Num(BoundingRectCalc(dom)),
                 Num(DeepScanCalc(dom)), CalculateKaTeXHeight(dom)>>)

\* calculateOptimalHeight adding its buffer to every measurement.
BufferAlways(lastSent) == Px(STARTUP_BUFFER)

\* The startup buffer of calculateOptimalHeight.
BufferFor(lastSent) == IF lastSent = Num(0) THEN Px(STARTUP_BUFFER) ELSE 0

\* calculateOptimalHeight of the debounced script.
CalculateOptimalHeight(dom, lastSent) ==
    LET maxHeight == MaxStrategyHeight(dom)
    IN  IF IsNum(maxHeight) THEN MathCeil(Num(maxHeight.n + BufferFor(lastSent)))
        ELSE maxHeight

\* calculateHeight of the frame-aligned script.
CalculateHeight(dom) ==
    Num(Max2(Max2(dom.bodyScrollHeight, dom.docScrollHeight),
             dom.bodyRectHeight + dom.pageYOffset))

\* The height an evaluation computes, per variant.
MeasuredHeight(variant, dom, lastSent) ==
    IF variant = "debounced" THEN CalculateOptimalHeight(dom, lastSent)
    ELSE CalculateHeight(dom)

\* The significance test of sendHeightUpdate.
Significant(height, lastSent) == AbsDiffExceeds(height, lastSent, Px(HEIGHT_THRESHOLD))

\* The value given as the height field to JSON.stringify.
PostedHeight(variant, height) ==
    IF variant = "debounced" THEN height ELSE MathCeil(height)

\* One run of the scheduled callback of sendHeightUpdate: the new
\* lastSentHeight, the heights posted and whether the catch ran.
EvalResult(variant, dom, lastSent) ==
    IF ~dom.hasBody
    THEN [lastSent |-> lastSent, posted |-> <<>>, threw |-> TRUE]
    ELSE \* const height = ...: measured once, then used
         CHOOSE r \in
           { IF Significant(height, lastSent)
             THEN [lastSent |-> height, posted |-> <<PostedHeight(variant, height)>>,
                   threw |-> FALSE]
             ELSE [lastSent |-> lastSent, posted |-> <<>>, threw |-> FALSE] :
             height \in {MeasuredHeight(variant, dom, lastSent)} } : TRUE

\* The payload the host parses out of a posted notification.
Notification(value) == [kind |-> "object", type |-> "height", height |-> JsonNumber(value)]

\* ------------------------------------------------- variants of the handler
\* handleMessage without its try/catch: the exceptions of JSON.parse and of
\* reading a field of null leave the handler.
HandleResultNoCatch(payload, minH, lastHeight, hasCb) ==
    LET ignored == [ref |-> lastHeight, set |-> <<>>, calls |-> <<>>, caught |-> FALSE,
                    escaped |-> FALSE]
    IN  CASE payload.kind \in {"invalid", "null"} -> [ignored EXCEPT !.escaped = TRUE]
          [] payload.kind = "primitive" -> ignored
          [] OTHER ->
             IF payload.type = "height" /\ Truthy(payload.height)
             THEN LET newHeight == MathMax(payload.height, Num(minH))
                  IN  IF AbsDiffExceeds(newHeight, Num(lastHeight), Px(HOST_TOLERANCE))
                      THEN [ref |-> newHeight.n, set |-> <<newHeight.n>>,
                            calls |-> IF hasCb THEN <<newHeight.n>> ELSE <<>>,
                            caught |-> FALSE, escaped |-> FALSE]
                      ELSE ignored
             ELSE ignored

\* handleMessage accepting a change of exactly the tolerance (>= for >).
HandleResultAtLeast(payload, minH, lastHeight, hasCb) ==
    LET ignored == [ref |-> lastHeight, set |-> <<>>, calls |-> <<>>, caught |-> FALSE,
                    escaped |-> FALSE]
    IN  CASE payload.kind \in {"invalid", "null"} -> [ignored EXCEPT !.caught = TRUE]
          [] payload.kind = "primitive" -> ignored
          [] OTHER ->
             IF payload.type = "height" /\ Truthy(payload.height)
             THEN LET newHeight == MathMax(payload.height, Num(minH))
                  IN  IF AbsDiffExceeds(newHeight, Num(lastHeight), Px(HOST_TOLERANCE) - 1)
                      THEN [ref |-> newHeight.n, set |-> <<newHeight.n>>,
                            calls |-> IF hasCb THEN <<newHeight.n>> ELSE <<>>,
                            caught |-> FALSE, escaped |-> FALSE]
                      ELSE ignored
             ELSE ignored

\* handleMessage without the Math.max against minHeight.
HandleResultNoFloor(payload, minH, lastHeight, hasCb) ==
    LET ignored == [ref |-> lastHeight, set |-> <<>>, calls |-> <<>>, caught |-> FALSE,
                    escaped |-> FALSE]
    IN  CASE payload.kind \in {"invalid", "null"} -> [ignored EXCEPT !.caught = TRUE]
          [] payload.kind = "primitive" -> ignored
          [] OTHER ->
             IF payload.type = "height" /\ Truthy(payload.height)
             THEN LET newHeight == ToNumber(payload.height)
                  IN  IF AbsDiffExceeds(newHeight, Num(lastHeight), Px(HOST_TOLERANCE))
                      THEN [ref |-> newHeight.n, set |-> <<newHeight.n>>,
                            calls |-> IF hasCb THEN <<newHeight.n>> ELSE <<>>,
                            caught |-> FALSE, escaped |-> FALSE]
                      ELSE ignored
             ELSE ignored

\* handleMessage without the assignment to lastHeightRef.current.
HandleResultStaleRef(payload, minH, lastHeight, hasCb) ==
    LET ignored == [ref |-> lastHeight, set |-> <<>>, calls |-> <<>>, caught |-> FALSE,
                    escaped |-> FALSE]
    IN  CASE payload.kind \in {"invalid", "null"} -> [ignored EXCEPT !.caught = TRUE]
          [] payload.kind = "primitive" -> ignored
          [] OTHER ->
             IF payload.type = "height" /\ Truthy(payload.height)
             THEN LET newHeight == MathMax(payload.height, Num(minH))
                  IN  IF AbsDiffExceeds(newHeight, Num(lastHeight), Px(HOST_TOLERANCE))
                      THEN [ref |-> lastHeight, set |-> <<newHeight.n>>,
                            calls |-> IF hasCb THEN <<newHeight.n>> ELSE <<>>,
                            caught |-> FALSE, escaped |-> FALSE]
                      ELSE ignored
             ELSE ignored

\* ------------------------------------------------------------ the host
\* handleMessage on one payload: the new lastHeightRef.current, the values
\* passed to setHeight and to onHeightChange, whether the catch ran and whether
\* an exception left the handler.
\* payload.kind: "invalid" is text JSON.parse rejects, "null" the JSON null
\* (reading data.type throws), "primitive" a JSON number, string or boolean,
\* "object" an object with the fields type and height.
HandleResult(payload, minH, lastHeight, hasCb) ==
    LET ignored == [ref |-> lastHeight, set |-> <<>>, calls |-> <<>>, caught |-> FALSE,
                    escaped |-> FALSE]
    IN  CASE payload.kind \in {"invalid", "null"} -> [ignored EXCEPT !.caught = TRUE]
          [] payload.kind = "primitive" -> ignored
          [] OTHER ->
             IF payload.type = "height" /\ Truthy(payload.height)
             THEN LET newHeight == MathMax(payload.height, Num(minH))
                  IN  IF AbsDiffExceeds(newHeight, Num(lastHeight), Px(HOST_TOLERANCE))
                      THEN [ref |-> newHeight.n, set |-> <<newHeight.n>>,
                            calls |-> IF hasCb THEN <<newHeight.n>> ELSE <<>>,
                            caught |-> FALSE, escaped |-> FALSE]
                      ELSE ignored
             ELSE ignored

\* ------------------------------------------------------------ input sets
Plain(h) == Dom(TRUE, h, h, h, h, h, h, h, h, 0, <<h>>, <<>>)

Layouts ==
    { \* nothing rendered yet: no strategy returns a positive value
      Plain(0),
      \* a body 45.5 px tall; the integer properties round it to 45
      Dom(TRUE, Px(45), Px(45), Px(45), Px(45), Px(45), Px(45),
          Px(45) + 1, Px(45) + 1, 0, <<Px(45) + 1>>, <<>>),
      Plain(Px(51)),
      \* a fraction whose strut reaches below the body box
      Dom(TRUE, Px(60), Px(60), Px(60), Px(60), Px(60), Px(60),
          Px(60), Px(60), 0, <<Px(60), Px(58)>>,
          <<[bottom |-> Px(58), struts |-> <<Px(50), Px(72)>>]>>),
      \* document.body is null
      Dom(FALSE, 0, 0, 0, 0, 0, 0, 0, 0, 0, <<>>, <<>>) }

Variants == {"debounced", "frame"}

MinHeights == {Px(DEFAULT_MIN_HEIGHT), Px(DEFAULT_MIN_HEIGHT + 1)}

Object(type, height) == [kind |-> "object", type |-> type, height |-> height]

\* Payloads page code other than the monitor may post.
ForeignPayloads ==
    { [kind |-> k, type |-> "", height |-> Undefined] : k \in {"invalid", "null", "primitive"} }
    \cup { Object("height", h) :
             h \in {Undefined, Num(0), Num(Px(-5)),
                    Num(Px(51)), Num(Px(70))} }
    \cup { Object("resize", Num(Px(70))) }

\* ---------------------------------------------------------------- styles
\* A style value: a string, cut into its characters (into longer pieces where
\* no code reads inside them), or a number.
Str(chars) == [t |-> "str", n |-> 0, s |-> chars]
StyleNum(n) == [t |-> "num", n |-> n, s |-> <<>>]
StyleNaN == [t |-> "nan", n |-> 0, s |-> <<>>]

\* The characters style values are built from: digits, sign, blank, a letter.
Chars == {"2", "5", "-", " ", "p"}
IsDigit(c) == c \in {"2", "5"}
DigitValue(c) == IF c = "2" THEN 2 ELSE 5

RECURSIVE SkipBlanks(_)
\* parseFloat skips leading white space.
SkipBlanks(chars) ==
    IF chars /= <<>> /\ Head(chars) = " " THEN SkipBlanks(Tail(chars)) ELSE chars

RECURSIVE DigitPrefix(_)
\* The longest run of digits chars starts with.
DigitPrefix(chars) ==
    IF chars /= <<>> /\ IsDigit(Head(chars))
    THEN <<Head(chars)>> \o DigitPrefix(Tail(chars))
    ELSE <<>>

RECURSIVE DecimalValue(_, _)
DecimalValue(digits, acc) ==
    IF digits = <<>> THEN acc
    ELSE DecimalValue(Tail(digits), 10 * acc + DigitValue(Head(digits)))

\* parseFloat on strings over Chars: blanks, an optional sign, then the
\* longest run of digits; whatever follows the digits is ignored, and NaN
\* when no digit stands there.
ParseFloat(chars) ==
    LET body == SkipBlanks(chars)
        negative == body /= <<>> /\ Head(body) = "-"
        digits == DigitPrefix(IF negative THEN Tail(body) ELSE body)
    IN  IF digits = <<>> THEN StyleNaN
        ELSE StyleNum(IF negative THEN -DecimalValue(digits, 0)
                      ELSE DecimalValue(digits, 0))

\* The keys style maps are built from.
StyleKeys == {"borderWidth", "borderTopWidth", "padding"}

\* key.includes('borderWidth'), over StyleKeys: "borderTopWidth" does not
\* contain it.
IncludesBorderWidth(key) == key \in {"borderWidth"}

\* acc[key] = value on an object kept as its entries in insertion order.
RECURSIVE SetKey(_, _, _)
SetKey(entries, key, value) ==
    IF entries = <<>> THEN << <<key, value>> >>
    ELSE IF Head(entries)[1] = key THEN << <<key, value>> >> \o Tail(entries)
    ELSE <<Head(entries)>> \o SetKey(Tail(entries), key, value)

\* The reducer over Object.entries(containerStyle): one entry.
ReduceEntry(acc, entry) ==
    IF entry[2].t = "str" /\ IncludesBorderWidth(entry[1])
         /\ ParseFloat(entry[2].s).t /= "nan"
    THEN SetKey(acc, entry[1], ParseFloat(entry[2].s))
    ELSE SetKey(acc, entry[1], entry[2])

RECURSIVE ReduceEntries(_, _)
ReduceEntries(entries, acc) ==
    IF entries = <<>> THEN acc
    ELSE ReduceEntries(Tail(entries), ReduceEntry(acc, Head(entries)))

\* A style map as a prop: not passed, or an object with its entries.
NotPassed == [given |-> FALSE, entries |-> <<>>]
Passed(entries) == [given |-> TRUE, entries |-> entries]

\* containerStyle && Object.entries(containerStyle).reduce(...): the element
\* of the View's style array.
ViewStyle(containerStyle) ==
    IF containerStyle.given THEN Passed(ReduceEntries(containerStyle.entries, <<>>))
    ELSE NotPassed

\* initialStyles of formatContainerStyles.
InitialStyles ==
    << <<"font-family", Str(<<"-apple-system, BlinkMacSystemFont, \"Segoe UI\", Roboto, sans-serif">>)>>,
       <<"font-size", Str(<<"1", "6", "p", "x">>)>>,
       <<"line-height", Str(<<"1", ".", "6">>)>>,
       <<"padding", Str(<<"8", "p", "x">>)>>,
       <<"background-color", Str(<<"transparent">>)>>,
       <<"color", Str(<<"black">>)>> >>

RECURSIVE AssignAll(_, _)
\* Object.entries(s).forEach(([key, value]) => initialStyles[key] = value)
AssignAll(entries, acc) ==
    IF entries = <<>> THEN acc
    ELSE AssignAll(Tail(entries), SetKey(acc, Head(entries)[1], Head(entries)[2]))

\* formatContainerStyles: {} without a style object.
FormatContainerStyles(s) ==
    IF ~s.given THEN <<>> ELSE AssignAll(s.entries, InitialStyles)

\* The cssKey of createKaTeXHTML (a hyphen before each capital, then lower
\* case), over the keys of StyleKeys and of InitialStyles.
CssKey(key) ==
    CASE key = "borderWidth" -> "border-width"
      [] key = "borderTopWidth" -> "border-top-width"
      [] OTHER -> key

\* The declarations of #outer-wrapper in createKaTeXHTML, as <<cssKey, value>>.
OuterWrapperStyle(containerStyles) ==
    LET formatted == FormatContainerStyles(containerStyles)
    IN  Passed([i \in DOMAIN formatted |-> <<CssKey(formatted[i][1]), formatted[i][2]>>])

\* The strings of at most n characters.
RECURSIVE Strings(_)
Strings(n) ==
    IF n = 0 THEN { <<>> }
    ELSE Strings(n - 1) \cup { Append(w, c) : w \in Strings(n - 1), c \in Chars }

StyleValues == { Str(w) : w \in Strings(MaxStrLen) } \cup { StyleNum(2) }

\* The entry lists of at most n entries, no key twice.
RECURSIVE EntryLists(_)
EntryLists(n) ==
    IF n = 0 THEN { <<>> }
    ELSE EntryLists(n - 1) \cup
         { Append(es, <<k, v>>) : es \in EntryLists(n - 1),
                                  k \in StyleKeys, v \in StyleValues }

NoKeyTwice(es) == \A i, j \in DOMAIN es : es[i][1] = es[j][1] => i = j

StyleMaps ==
    { NotPassed } \cup { Passed(es) : es \in { e \in EntryLists(MaxEntries) : NoKeyTwice(e) } }

NotRendered == [op |-> "none", style |-> NotPassed]

\* ------------------------------------------------------------ script start
\* A call the script body makes once its functions are defined; delay is the
\* delay given to setTimeout, 0 for the other calls.
Call(name, delay) == [call |-> name, delay |-> delay]

\* setupObservers hands document.body to observe(), which throws a TypeError
\* on null: on a document without body the script body ends there.
SetupThrows(d) == ~d.hasBody

\* The calls of initialize() in the frame-aligned script, and of the
\* "Initialize" lines that end the debounced script, in program order, up to
\* the call that throws.
InitialCalls(v, d) ==
    IF SetupThrows(d) THEN <<Call("setupObservers", 0)>>
    ELSE IF v = "frame"
    THEN <<Call("setupObservers", 0), Call("sendHeightUpdate", 0),
           Call("setTimeout", 100), Call("setTimeout", 300)>>
    ELSE <<Call("setupObservers", 0), Call("setTimeout", 50),
           Call("setTimeout", 200), Call("setTimeout", 500)>>

\* A timer of the page: "trigger" calls sendHeightUpdate, "interval" is the
\* KaTeX re-check, "observe" hands the KaTeX elements to the ResizeObserver.
Timer(kind, due) == [kind |-> kind, due |-> due]

\* setupObservers: the listeners it installs and the timers it starts, in a
\* browser with (ro) or without ResizeObserver. The frame-aligned script
\* returns once it has a ResizeObserver.
SetupObservers(v, ro) ==
    IF v = "frame"
    THEN IF ro
         THEN [listeners |-> {"resizeObserver"}, timers |-> {Timer("observe", 100)}]
         ELSE [listeners |-> {"mutation", "resize"}, timers |-> {}]
    ELSE [listeners |-> (IF ro THEN {"resizeObserver"} ELSE {}) \cup {"mutation", "load"},
          timers |-> {Timer("interval", CHECK_INTERVAL_MS)}]

\* The delay between sendHeightUpdate and its callback: the debounce, or the
\* next animation frame, which comes before any later timer.
EvalDelay(v) == IF v = "debounced" THEN DEBOUNCE_MS ELSE 0

\* The page's timers and listeners when the script body has run on the
\* document d; nothing is installed when setupObservers threw.
Initialize(v, ro, d) ==
    LET setup == IF SetupThrows(d) THEN [listeners |-> {}, timers |-> {}]
                 ELSE SetupObservers(v, ro)
        made == InitialCalls(v, d)
    IN  [now |-> 0,
         hasResizeObserver |-> ro,
         started |-> ~SetupThrows(d),
         listeners |-> setup.listeners,
         \* a ResizeObserver reports every element once after observe()
         observed |-> ("resizeObserver" \in setup.listeners),
         timers |-> setup.timers
                      \cup { Timer("trigger", made[i].delay) :
                               i \in { j \in DOMAIN made : made[j].call = "setTimeout" } },
         initialCalls |-> made,
         checkCount |-> 0,
         evalDue |-> 0,
         \* no resize event awaits its dispatch on a page just loaded
         resized |-> FALSE,
         event |-> "start"]

\* ------------------------------------------------------------------ state
VARIABLES
    styleIn,         \* rendering: the style map passed by the caller
    styleOut,        \* rendering: the style last produced from it
    variant,         \* which HEIGHT_CALCULATION_SCRIPT is injected
    dom,             \* the document as the measuring code would read it now
    lastSentHeight,  \* the script's lastSentHeight
    timer,           \* updateTimer / rafId: "null", "live" (callback pending), "fired"
    pending,         \* scheduled evaluation callbacks that have not run
    emitted,         \* history: whether this load posted, and the height it posted last
    queue,           \* the bridge: payloads posted and not yet handled
    height,          \* the height state of the component
    lastHeightRef,   \* lastHeightRef.current
    minHeight,       \* the minHeight prop
    hasCallback,     \* whether onHeightChange is supplied
    mounted,         \* whether the component is mounted
    deliveries,      \* history: how often in a row the oldest payload in flight has
                     \* been handled under the minHeight in force (2: twice or more)
    last,            \* history: what the last step did
    budget,          \* settling runs: the changes and calls the run may still take
    floor,           \* settling runs: minHeight as handleMessage used it last,
                     \* 0 before the first message
    firstOnly,       \* settling runs: the load posted exactly once
    triggered,       \* settling runs: sendHeightUpdate was called since the content
                     \* changed last
    loads,           \* settling runs: how many times the page has loaded
    lastPositive,    \* settling runs: the last positive height posted, 0 if none
    calls,           \* settling runs: sendHeightUpdate calls of the latest batch
    thrown,          \* settling runs: an evaluation of this load has thrown
    clock            \* timed runs: the time in ms since script start, the page's
                     \* timers and listeners, the event that came last

vars == <<styleIn, styleOut, variant, dom, lastSentHeight, timer, pending, emitted, queue, height,
          lastHeightRef, minHeight, hasCallback, mounted, deliveries, last,
          budget, floor, firstOnly, triggered, loads, lastPositive, calls, thrown, clock>>

sandboxVars == <<dom, lastSentHeight, timer, pending, emitted>>
hostVars == <<height, lastHeightRef, minHeight, deliveries>>
settlingVars == <<budget, floor, firstOnly, triggered, loads, lastPositive, calls, thrown>>
liveVars == <<settlingVars, clock>>
styleVars == <<styleIn, styleOut>>

Step(op) ==
    [op |-> op, calls |-> <<>>, caught |-> FALSE, escaped |-> FALSE,
     posted |-> <<>>, threw |-> FALSE]

NoEmission == [any |-> FALSE, value |-> Num(0)]

\* The script's state when its body has run on the document d:
\* lastSentHeight = 0, and the frame-aligned script's initialize() has already
\* called sendHeightUpdate once, unless setupObservers threw before that call
\* (the debounced script issues its first call from a timer).
StartTimer(v, d) == IF v = "frame" /\ ~SetupThrows(d) THEN "live" ELSE "null"
StartPending(v, d) == IF v = "frame" /\ ~SetupThrows(d) THEN 1 ELSE 0

\* The component mounts and the script has run, the page showing one of the
\* documents in S.
ComponentInit(S) ==
    /\ variant \in Variants
    /\ dom \in S
    /\ lastSentHeight = Num(0)
    /\ timer = StartTimer(variant, dom)
    /\ pending = StartPending(variant, dom)
    /\ emitted = NoEmission
    /\ queue = <<>>
    /\ minHeight \in MinHeights
    /\ height = minHeight
    /\ lastHeightRef = minHeight
    /\ hasCallback \in BOOLEAN
    /\ mounted = TRUE
    /\ deliveries = 0
    /\ last = Step("other")
    /\ budget = MaxEvents
    /\ floor = 0
    /\ firstOnly = FALSE
    /\ triggered = (StartPending(variant, dom) > 0)
    /\ loads = 1
    /\ lastPositive = 0
    /\ calls = StartPending(variant, dom)
    /\ thrown = FALSE

\* The script body has run, in a browser with or without ResizeObserver as E
\* allows.
ScriptStarts(E) == \E ro \in E : clock = Initialize(variant, ro, dom)

NoRender ==
    /\ styleIn = NotPassed
    /\ styleOut = NotRendered

Init == ComponentInit(Layouts) /\ NoRender /\ ScriptStarts({TRUE})

\* --------------------------------------------------------------- actions
\* A sendHeightUpdate that cancels nothing.
AfterCancelNothing(t, n) == n

\* clearTimeout(updateTimer) / if (rafId) cancelAnimationFrame(rafId): the
\* callbacks still pending once the handle has been cancelled.
AfterCancel(t, n) == IF t = "live" THEN n - 1 ELSE n

\* sendHeightUpdate(): cancels the pending evaluation and schedules a new one.
SendHeightUpdate ==
    /\ mounted
    /\ pending' = AfterCancel(timer, pending) + 1
    /\ timer' = "live"
    /\ last' = Step("other")
    /\ UNCHANGED <<styleVars, variant, dom, lastSentHeight, emitted, queue, hostVars,
                   hasCallback, mounted>>

\* An observer, an event listener or a timer of the script calls
\* sendHeightUpdate; a script whose start threw has installed none.
Trigger == clock.started /\ SendHeightUpdate /\ UNCHANGED liveVars

\* A callback that leaves its handle looking pending.
HandleAfterRunLive(v) == "live"

\* The handle once the scheduled callback has run: the frame-aligned script
\* resets rafId to null, the debounced one keeps the id of the fired timer.
HandleAfterRun(v) == IF v = "frame" THEN "null" ELSE "fired"

\* The scheduled callback of sendHeightUpdate runs; the bridge holds at most
\* room messages.
ScheduledCallback(room) ==
    /\ mounted
    /\ pending > 0
    /\ \E r \in {EvalResult(variant, dom, lastSentHeight)} :
           /\ Len(queue) + Len(r.posted) <= room
           /\ lastSentHeight' = r.lastSent
           /\ queue' = IF r.posted = <<>> THEN queue
                       ELSE Append(queue, Notification(r.posted[1]))
           /\ emitted' = IF r.posted = <<>> THEN emitted
                         ELSE [any |-> TRUE, value |-> r.posted[1]]
           /\ last' = [Step("eval") EXCEPT !.posted = r.posted,
                                           !.threw = r.threw]
    /\ pending' = pending - 1
    /\ timer' = HandleAfterRun(variant)
    /\ UNCHANGED <<styleVars, variant, dom, hostVars, hasCallback, mounted>>

\* The timer or the animation frame fires.
Evaluate == ScheduledCallback(MaxQueue) /\ UNCHANGED liveVars

\* The rendered content becomes one of the documents in S.
ContentBecomes(S) ==
    /\ mounted
    /\ dom' \in S \ {dom}
    /\ last' = Step("other")
    /\ UNCHANGED <<styleVars, variant, lastSentHeight, timer, pending, emitted, queue,
                   hostVars, hasCallback, mounted>>

\* The rendered content changes (KaTeX renders a phase, fonts load, ...).
ContentChange == ContentBecomes(Layouts) /\ UNCHANGED liveVars

\* Page code other than the monitor posts a payload on the bridge.
Inject ==
    /\ mounted
    /\ Len(queue) < MaxQueue
    /\ \E p \in ForeignPayloads : queue' = Append(queue, p)
    /\ last' = Step("other")
    /\ UNCHANGED <<styleVars, variant, sandboxVars, hostVars, hasCallback, mounted, liveVars>>

\* handleMessage runs on a payload: the whole handler, with what it leaves
\* behind. It tests no mounted flag; setHeight on an unmounted component is
\* dropped by React.
Handle(payload) ==
    LET r == HandleResult(payload, minHeight, lastHeightRef, hasCallback)
    IN  /\ lastHeightRef' = r.ref
        /\ height' = IF r.set /= <<>> /\ mounted THEN r.set[1] ELSE height
        /\ last' = [Step("handle") EXCEPT !.calls = r.calls, !.caught = r.caught,
                                          !.escaped = r.escaped]

\* The bridge calls handleMessage with the oldest payload in flight.
OnMessage ==
    /\ queue /= <<>>
    /\ Handle(Head(queue))
    /\ queue' = Tail(queue)
    /\ deliveries' = 0
    /\ UNCHANGED <<styleVars, variant, sandboxVars, minHeight, hasCallback, mounted>>

HandleMessage == OnMessage /\ UNCHANGED liveVars

\* The bridge is at-least-once: it calls handleMessage with the oldest payload
\* in flight and will deliver that payload again.
Redeliver ==
    /\ queue /= <<>>
    /\ Handle(Head(queue))
    /\ deliveries' = IF deliveries = 0 THEN 1 ELSE 2
    /\ UNCHANGED <<styleVars, variant, sandboxVars, queue, minHeight, hasCallback, mounted,
                   liveVars>>

\* The parent re-renders the component with another minHeight: useCallback
\* rebuilds handleMessage, useState and useRef keep their values.
MinHeightProp(S) ==
    /\ mounted
    /\ \E m \in S \ {minHeight} : minHeight' = m
    /\ deliveries' = 0
    /\ last' = Step("other")
    /\ UNCHANGED <<styleVars, variant, sandboxVars, queue, height, lastHeightRef,
                   hasCallback, mounted>>

SetMinHeight == MinHeightProp(MinHeights) /\ UNCHANGED liveVars

\* The WebView loads its content again: the injected script starts afresh.
PageLoad(S) ==
    /\ mounted
    /\ dom' \in S
    /\ lastSentHeight' = Num(0)
    /\ timer' = StartTimer(variant, dom')
    /\ pending' = StartPending(variant, dom')
    /\ clock' = Initialize(variant, clock.hasResizeObserver, dom')
    /\ emitted' = NoEmission
    /\ last' = Step("other")
    /\ UNCHANGED <<styleVars, variant, queue, hostVars, hasCallback, mounted>>

Reload == PageLoad(Layouts) /\ UNCHANGED settlingVars

\* The component unmounts; the WebView and its page go with it, payloads in
\* flight stay on the bridge.
Unmount ==
    /\ mounted
    /\ mounted' = FALSE
    /\ last' = Step("other")
    /\ UNCHANGED <<styleVars, variant, sandboxVars, queue, hostVars, hasCallback, liveVars>>

Next ==
    \/ Trigger
    \/ Evaluate
    \/ ContentChange
    \/ Inject
    \/ HandleMessage
    \/ Redeliver
    \/ SetMinHeight
    \/ Reload
    \/ Unmount

Spec == Init /\ [][Next]_vars

\* ------------------------------------------------------- settling runs
\* One load on a mounted component, the bridge carrying the monitor's
\* notifications only: the content changes and sendHeightUpdate is called a
\* bounded number of times, so every run comes to rest.
LiveLayouts == { d \in Layouts : d.hasBody } \cup { Plain(Px(4)), Plain(Px(56)) }

\* The parent may also ask for a much taller minimum.
LiveMinHeights == MinHeights \cup { Px(DEFAULT_MIN_HEIGHT + 30) }

LiveTrigger ==
    /\ budget > 0
    /\ clock.started
    /\ SendHeightUpdate
    /\ budget' = budget - 1
    /\ triggered' = TRUE
    /\ calls' = IF pending = 0 THEN 1 ELSE calls + 1
    /\ UNCHANGED <<floor, firstOnly, loads, lastPositive, thrown, clock>>

LiveEvaluate ==
    /\ ScheduledCallback(MaxQueue)
    /\ firstOnly' = IF last'.posted = <<>> THEN firstOnly ELSE ~emitted.any
    /\ lastPositive' = IF last'.posted /= <<>> /\ IsNum(last'.posted[1])
                            /\ last'.posted[1].n > 0
                       THEN last'.posted[1].n ELSE lastPositive
    /\ thrown' = (thrown \/ last'.threw)
    /\ UNCHANGED <<budget, floor, triggered, loads, calls, clock>>

LiveContentChange ==
    /\ budget > 0
    /\ ContentBecomes(LiveLayouts)
    /\ budget' = budget - 1
    /\ triggered' = FALSE
    /\ UNCHANGED <<floor, firstOnly, loads, lastPositive, calls, thrown, clock>>

LiveHandleMessage ==
    /\ OnMessage
    /\ floor' = minHeight
    /\ UNCHANGED <<budget, firstOnly, triggered, loads, lastPositive, calls, thrown, clock>>

LiveSetMinHeight ==
    /\ budget > 0
    /\ MinHeightProp(LiveMinHeights)
    /\ budget' = budget - 1
    /\ UNCHANGED <<floor, firstOnly, triggered, loads, lastPositive, calls, thrown, clock>>

LiveInit == ComponentInit(LiveLayouts) /\ NoRender /\ ScriptStarts({TRUE})

LiveNext ==
    \/ LiveTrigger
    \/ LiveEvaluate
    \/ LiveContentChange
    \/ LiveHandleMessage
    \/ LiveSetMinHeight

\* A scheduled timer or animation frame fires, and the bridge delivers.
LiveSpec ==
    LiveInit /\ [][LiveNext]_vars /\ WF_vars(LiveEvaluate) /\ WF_vars(LiveHandleMessage)

\* ------------------------------------------- runs with a fixed minHeight
\* The settling runs, minHeight staying what it was at mount.
OrderedNext ==
    \/ LiveTrigger
    \/ LiveEvaluate
    \/ LiveContentChange
    \/ LiveHandleMessage

OrderedSpec == LiveInit /\ [][OrderedNext]_vars

\* ------------------------------------ runs over documents without a body
\* The content may also become a document whose body is null, on which the
\* measuring code throws.
FaultContentChange ==
    /\ budget > 0
    /\ ContentBecomes(Layouts)
    /\ budget' = budget - 1
    /\ triggered' = FALSE
    /\ UNCHANGED <<floor, firstOnly, loads, lastPositive, calls, thrown, clock>>

FaultInit == Init

FaultNext ==
    \/ LiveTrigger
    \/ LiveEvaluate
    \/ FaultContentChange
    \/ LiveHandleMessage

FaultSpec == FaultInit /\ [][FaultNext]_vars

\* ----------------------------------------------------- runs with reloads
\* The settling runs, the page also loading again.
LiveReload ==
    /\ budget > 0
    /\ PageLoad(LiveLayouts)
    /\ budget' = budget - 1
    /\ firstOnly' = FALSE
    /\ triggered' = (StartPending(variant, dom') > 0)
    /\ loads' = loads + 1
    /\ calls' = StartPending(variant, dom')
    /\ thrown' = FALSE
    /\ UNCHANGED <<floor, lastPositive>>

LoadNext == LiveNext \/ LiveReload

LoadSpec == LiveInit /\ [][LoadNext]_vars

\* ------------------------------------------------------------ timed runs
\* The page's timers fire when they are due and time moves on to the next
\* deadline; the content stays what it was at script start.

\* sendHeightUpdate called at clock.now: the callback is due one delay later.
Called(c) == [c EXCEPT !.evalDue = c.now + EvalDelay(variant)]

\* A step of the page that calls nothing of the script.
Idle ==
    /\ last' = Step("other")
    /\ UNCHANGED <<styleVars, variant, sandboxVars, queue, hostVars, hasCallback, mounted>>

\* setTimeout(sendHeightUpdate, delay) fires.
StartupTimerFires(t) ==
    /\ t.kind = "trigger"
    /\ SendHeightUpdate
    /\ clock' = [Called(clock) EXCEPT !.timers = @ \ {t}, !.event = "trigger"]

\* A tick of checkInterval: checkKaTeXRendered, then the count, and
\* clearInterval once the count exceeds MAX_CHECKS. Rendered KaTeX always has
\* an element of class katex, which is what checkKaTeXRendered looks for.
CheckIntervalFires(t) ==
    /\ t.kind = "interval"
    /\ LET checkCount == clock.checkCount + 1
           timers == IF checkCount > MAX_CHECKS THEN clock.timers \ {t}
                     ELSE (clock.timers \ {t})
                            \cup {Timer("interval", t.due + CHECK_INTERVAL_MS)}
       IN  IF dom.hasBody /\ dom.katex /= <<>>
           THEN /\ SendHeightUpdate
                /\ clock' = [Called(clock) EXCEPT !.timers = timers,
                                                  !.checkCount = checkCount,
                                                  !.event = "interval"]
           ELSE /\ Idle
                /\ clock' = [clock EXCEPT !.timers = timers,
                                          !.checkCount = checkCount,
                                          !.event = "interval"]

\* The frame-aligned script's delayed resizeObserver.observe(el) over the
\* KaTeX elements; the observer will report the elements it was given.
ObserveTimerFires(t) ==
    /\ t.kind = "observe"
    /\ Idle
    /\ clock' = [clock EXCEPT !.timers = @ \ {t},
                              !.listeners = IF dom.hasBody /\ dom.katex /= <<>>
                                            THEN @ \cup {"resizeObserver:katex"} ELSE @,
                              !.observed = @ \/ (dom.hasBody /\ dom.katex /= <<>>),
                              !.event = "observe"]

\* A timer that is due fires.
TimerFires ==
    /\ mounted
    /\ \E t \in clock.timers :
           /\ t.due <= clock.now
           /\ \/ StartupTimerFires(t)
              \/ CheckIntervalFires(t)
              \/ ObserveTimerFires(t)
    /\ UNCHANGED settlingVars

\* The callback of sendHeightUpdate is due now.
EvaluationDue == pending > 0 /\ clock.evalDue <= clock.now

\* The ResizeObserver reports what it has observed: its callback calls
\* sendHeightUpdate. The browser runs the animation-frame callbacks of a frame
\* before the observer's.
ResizeObserverFires ==
    /\ mounted
    /\ clock.observed
    /\ ~(variant = "frame" /\ EvaluationDue)
    /\ SendHeightUpdate
    /\ clock' = [Called(clock) EXCEPT !.observed = FALSE, !.event = "resizeObserver"]
    /\ UNCHANGED settlingVars

\* The callback of sendHeightUpdate runs when it is due.
TimedEvaluate ==
    /\ clock.evalDue <= clock.now
    /\ ScheduledCallback(MaxQueue)
    /\ clock' = [clock EXCEPT !.event = "eval"]
    /\ UNCHANGED settlingVars

\* The deadlines ahead: the timers' and the pending callback's.
Deadlines == { t.due : t \in clock.timers } \cup (IF pending > 0 THEN {clock.evalDue} ELSE {})

\* Nothing is due: time moves to the next deadline.
Advance ==
    /\ ~clock.observed
    /\ Deadlines /= {}
    /\ \A d \in Deadlines : d > clock.now
    /\ \E next \in Deadlines :
           /\ \A d \in Deadlines : next <= d
           /\ next <= Horizon
           /\ clock' = [clock EXCEPT !.now = next, !.event = "advance"]
    /\ Idle
    /\ UNCHANGED settlingVars

\* The bridge delivers the oldest payload.
TimedHandleMessage ==
    /\ OnMessage
    /\ clock' = [clock EXCEPT !.event = "deliver"]
    /\ UNCHANGED settlingVars

ClockInit == ComponentInit(Layouts) /\ NoRender /\ ScriptStarts(BOOLEAN)

ClockNext ==
    \/ TimerFires
    \/ ResizeObserverFires
    \/ TimedEvaluate
    \/ Advance
    \/ TimedHandleMessage

ClockSpec == ClockInit /\ [][ClockNext]_vars

\* ------------------------------------------------ timed runs with events
\* The events of the page the claims name, and the listener each needs.
PageEvents == {"mutation", "resize", "load"}

\* Whether the script installed a listener that calls sendHeightUpdate on
\* the event.
Listens(listeners, e) == e \in listeners

\* The content subtree mutates, the viewport resizes or the page's load
\* event fires: the listener, where there is one, calls sendHeightUpdate.
PageEvent ==
    /\ mounted
    /\ clock.now < Horizon
    /\ \E e \in PageEvents :
           IF Listens(clock.listeners, e)
           THEN /\ SendHeightUpdate
                /\ clock' = [Called(clock) EXCEPT !.event = e]
           ELSE /\ Idle
                /\ clock' = [clock EXCEPT !.event = e]
    /\ UNCHANGED settlingVars

\* The body or the html element changes size (the viewport gets another
\* width, content reflows): a ResizeObserver, where there is one, will report
\* it.
SizeChange ==
    /\ mounted
    /\ clock.now < Horizon
    /\ Idle
    /\ clock' = [clock EXCEPT !.observed = @ \/ ("resizeObserver" \in clock.listeners),
                              !.event = "sizeChange"]
    /\ UNCHANGED settlingVars

StartNext == ClockNext \/ PageEvent \/ SizeChange

StartSpec == ClockInit /\ [][StartNext]_vars

\* ------------------------------------------------------- the closed loop
\* The WebView fills the View, so the viewport of the page is as tall as the
\* height the host displays: documentElement.clientHeight is the viewport
\* height and documentElement.scrollHeight is never below it.
InViewport(d, viewport) ==
    [d EXCEPT !.docClientHeight = viewport,
              !.docScrollHeight = Max2(d.bodyScrollHeight, viewport)]

\* Contents of fixed height.
LoopLayouts == { d \in Layouts : d.hasBody /\ d.bodyScrollHeight > 0 }

LoopInit ==
    /\ ComponentInit({ InViewport(content, m) : content \in LoopLayouts, m \in MinHeights })
    /\ dom.docClientHeight = height
    /\ NoRender
    /\ ScriptStarts(BOOLEAN)

LoopEvaluate == ScheduledCallback(LoopQueue) /\ UNCHANGED liveVars

\* handleMessage on the oldest payload: it sets the height and returns.
LoopHandleMessage == OnMessage /\ UNCHANGED liveVars

\* The View is laid out with the height the host displays and the viewport of
\* the page follows; the browser queues a resize event for the page.
ViewportResizes ==
    /\ mounted
    /\ dom.docClientHeight /= height
    /\ dom' = InViewport(dom, height)
    /\ clock' = [clock EXCEPT !.resized = TRUE]
    /\ last' = Step("other")
    /\ UNCHANGED <<styleVars, variant, lastSentHeight, timer, pending, emitted, queue,
                   hostVars, hasCallback, mounted, settlingVars>>

\* The page's event loop dispatches the queued resize event, in a later task
\* than the layout: the resize listener, where the script installed one, calls
\* sendHeightUpdate. The body is as tall as its content, so the
\* ResizeObserver has nothing to report when only the viewport height changed.
ResizeEvent ==
    /\ mounted
    /\ clock.resized
    /\ IF Listens(clock.listeners, "resize") THEN SendHeightUpdate ELSE Idle
    /\ clock' = [clock EXCEPT !.resized = FALSE]
    /\ UNCHANGED settlingVars

\* The timers, the observers and the load listener of a page whose content
\* keeps its height call sendHeightUpdate finitely often (LiveTrigger); the
\* resize listener calls it once for every resize event.
LoopNext ==
    \/ LiveTrigger
    \/ LoopEvaluate
    \/ LoopHandleMessage
    \/ ViewportResizes
    \/ ResizeEvent

\* A scheduled timer or animation frame fires, the bridge delivers, the View
\* is laid out and the page dispatches its resize event: four tasks of their
\* own, none of them postponed for ever.
LoopSpec ==
    /\ LoopInit
    /\ [][LoopNext]_vars
    /\ WF_vars(LoopEvaluate)
    /\ WF_vars(LoopHandleMessage)
    /\ WF_vars(ViewportResizes)
    /\ WF_vars(ResizeEvent)

\* ------------------------------------------------------------ rendering
\* The component renders: the View gets its style array.
RenderView ==
    /\ styleOut' = [op |-> "view", style |-> ViewStyle(styleIn)]
    /\ UNCHANGED <<styleIn, variant, sandboxVars, queue, hostVars, hasCallback,
                   mounted, last, liveVars>>

\* The caller builds the page with createKaTeXHTML.
CreateKaTeXHTML ==
    /\ styleOut' = [op |-> "html", style |-> OuterWrapperStyle(styleIn)]
    /\ UNCHANGED <<styleIn, variant, sandboxVars, queue, hostVars, hasCallback,
                   mounted, last, liveVars>>

StyleInit ==
    /\ ComponentInit({Plain(0)})
    /\ variant = "frame" /\ minHeight = Px(DEFAULT_MIN_HEIGHT)
    /\ ~hasCallback
    /\ styleIn \in StyleMaps
    /\ styleOut = NotRendered
    /\ ScriptStarts({TRUE})

StyleNext == RenderView \/ CreateKaTeXHTML

StyleSpec == StyleInit /\ [][StyleNext]_vars

\* ----------------------------------------------------- claims on the host
\* A step in which handleMessage ran; the payload it ran on is Head(queue).
HandleStep == queue /= <<>> /\ last'.op = "handle"

\* A valid notification: type 'height' and a positive height.
Valid(p) == p.kind = "object" /\ p.type = "height" /\ IsNum(p.height) /\ p.height.n > 0

\* candidate = max(value, minHeight) of a valid notification.
Candidate(p) == Max2(p.height.n, minHeight)

\* C1: while the component is mounted the displayed height, mirrored by
\* lastHeightRef, is at least the current minHeight.
C1_HeightAtLeastMinHeight ==
    mounted => (lastHeightRef = height /\ height >= minHeight)

\* A payload whose parsed type is not 'height', or whose height is <= 0.
WrongTypeOrNonPositive(p) ==
    /\ p.kind = "object"
    /\ \/ p.type /= "height"
       \/ IsNum(p.height) /\ p.height.n <= 0

\* C2: a payload of another type, or with a height that is zero or negative,
\* leaves the displayed height as it was and invokes no onHeightChange.
C2_NonPositiveOrWrongTypeIgnored ==
    [][HandleStep /\ WrongTypeOrNonPositive(Head(queue))
         => height' = height /\ last'.calls = <<>>]_vars

\* A payload that fails JSON parsing, parses to a non-object, or has no height.
Malformed(p) ==
    \/ p.kind \in {"invalid", "null", "primitive"}
    \/ p.kind = "object" /\ p.height = Undefined

ValidPayloads == { q \in ForeignPayloads : Valid(q) }

\* C3: a malformed payload raises nothing out of handleMessage, leaves the
\* displayed height and lastHeightRef as they were and invokes no
\* onHeightChange; a valid notification is handled afterwards as it would have
\* been before.
C3_MalformedDiscarded ==
    [][HandleStep /\ Malformed(Head(queue))
         => /\ ~last'.escaped
            /\ height' = height
            /\ lastHeightRef' = lastHeightRef
            /\ last'.calls = <<>>
            /\ \A v \in ValidPayloads :
                 HandleResult(v, minHeight', lastHeightRef', hasCallback')
                   = HandleResult(v, minHeight, lastHeightRef, hasCallback)]_vars

\* A malformed payload has just been handled: the catch ran, nothing changed.
C3_Witness ==
    /\ last.op = "handle"
    /\ last.caught
    /\ deliveries >= 1
    /\ Malformed(Head(queue))
    /\ height > minHeight

\* C4: a valid notification with candidate = max(value, minHeight) more than
\* 1 px away from the displayed height makes the candidate the displayed height
\* and invokes onHeightChange, if supplied, once with the candidate; otherwise
\* the displayed height stays and onHeightChange is not invoked.
C4_AcceptedIffBeyondTolerance ==
    [][HandleStep /\ mounted /\ Valid(Head(queue))
         => LET candidate == Candidate(Head(queue))
            IN  IF Abs(candidate - height) > Px(HOST_TOLERANCE)
                THEN /\ height' = candidate
                     /\ last'.calls = IF hasCallback THEN <<candidate>> ELSE <<>>
                ELSE /\ height' = height
                     /\ last'.calls = <<>>]_vars

\* onHeightChange has just been invoked with the new displayed height, which
\* lies above minHeight.
C4_Witness ==
    /\ mounted
    /\ last.op = "handle"
    /\ last.calls = <<height>>
    /\ height > minHeight

\* C5 as stated: after a valid notification the displayed height equals
\* max(received, minHeight) and is not below minHeight.
C5_DisplayedEqualsCandidate ==
    [][HandleStep /\ mounted /\ Valid(Head(queue))
         => height' = Candidate(Head(queue)) /\ height' >= minHeight]_vars

\* C5 amended: after a valid notification the displayed height is the
\* candidate max(received, minHeight) when that lies more than 1 px from the
\* height displayed before, and the height displayed before otherwise; so it is
\* within 1 px of the candidate and at most 1 px below minHeight.
C5_DisplayedWithinTolerance ==
    [][HandleStep /\ mounted /\ Valid(Head(queue))
         => LET candidate == Candidate(Head(queue))
            IN  /\ height' \in {candidate, height}
                /\ Abs(height' - candidate) <= Px(HOST_TOLERANCE)
                /\ height' >= minHeight - Px(HOST_TOLERANCE)]_vars

\* A valid notification has just been handled and the displayed height is not
\* its candidate: it lies within the tolerance of it.
C5_Witness ==
    /\ mounted
    /\ last.op = "handle"
    /\ deliveries >= 1
    /\ Valid(Head(queue))
    /\ height /= Candidate(Head(queue))

\* C8: a valid notification handled a second time in a row, minHeight
\* unchanged in between, changes neither the displayed height nor
\* lastHeightRef and invokes no onHeightChange.
C8_SecondDeliveryNoOp ==
    [][HandleStep /\ mounted /\ deliveries >= 1 /\ Valid(Head(queue))
         => /\ height' = height
            /\ lastHeightRef' = lastHeightRef
            /\ last'.calls = <<>>]_vars

\* A valid notification that changed the displayed height has been handled
\* twice in a row.
C8_Witness ==
    /\ mounted
    /\ last.op = "handle"
    /\ deliveries = 2
    /\ Valid(Head(queue))
    /\ height = Head(queue).height.n
    /\ height > minHeight

\* C9: once the component has unmounted, a delivered notification updates
\* nothing and invokes no onHeightChange.
C9_NothingAfterUnmount ==
    [][HandleStep /\ ~mounted
         => /\ height' = height
            /\ lastHeightRef' = lastHeightRef
            /\ last'.calls = <<>>]_vars

\* -------------------------------------------------- claims on the monitor
\* A step in which the scheduled callback of sendHeightUpdate ran.
EvalStep == last'.op = "eval"

\* The largest positive value among the strategies of the running script.
StrategyMax(v, d) == IF v = "debounced" THEN MaxStrategyHeight(d) ELSE CalculateHeight(d)

\* C6: an evaluation posts a notification exactly when its height differs by
\* more than 5 px from the height posted before it (0 before the first), so
\* two heights posted one after the other differ by more than 5 px.
C6_EmittedIffBeyondThreshold ==
    [][EvalStep /\ dom.hasBody
         => LET measured == MeasuredHeight(variant, dom, lastSentHeight)
                beyond == AbsDiffExceeds(measured, emitted.value, Px(HEIGHT_THRESHOLD))
            IN  /\ (last'.posted /= <<>>) <=> beyond
                /\ last'.posted /= <<>>
                     => AbsDiffExceeds(last'.posted[1], emitted.value,
                                       Px(HEIGHT_THRESHOLD))]_vars

\* C7: the first notification of a load carries ceil(M + 10) and every later
\* one ceil(M), M the largest positive strategy height at that evaluation.
C7_FirstEmissionBuffered ==
    [][(EvalStep /\ last'.posted /= <<>> /\ IsNum(StrategyMax(variant, dom))
          /\ StrategyMax(variant, dom).n > 0)
         => LET m == StrategyMax(variant, dom).n
            IN  last'.posted[1] =
                  IF emitted.any THEN Num(CeilUnits(m))
                  ELSE Num(CeilUnits(m + Px(STARTUP_BUFFER)))]_vars


\* --------------------------------------------------- claims on settling
\* The raw height has stayed at a value above `least` since the content changed
\* last, and sendHeightUpdate has been called since.
Settled(least) ==
    /\ triggered
    /\ IsNum(StrategyMax(variant, dom))
    /\ StrategyMax(variant, dom).n > least

\* No evaluation is pending and no notification is in flight.
Quiescent == pending = 0 /\ queue = <<>>

\* |d - max(ceil(H), m)|, d the displayed height and H the raw height.
Distance(m) == Abs(height - Max2(CeilUnits(StrategyMax(variant, dom).n), m))

\* C10 (as stated): once the raw height H > 0 is constant, a trigger has
\* occurred and the run has come to rest, the displayed height d satisfies
\* |d - max(ceil(H), minHeight)| <= 6.
C10_SettledWithinSix ==
    (Settled(0) /\ Quiescent)
        => Distance(minHeight) <= Px(HEIGHT_THRESHOLD + HOST_TOLERANCE)

\* The distance the displayed height might keep if the bound made room for the
\* startup buffer: buffer plus tolerance while the only notification is the
\* debounced script's first one, threshold plus tolerance otherwise.
Allowance ==
    IF variant = "debounced" /\ firstOnly
    THEN Px(STARTUP_BUFFER + HOST_TOLERANCE)
    ELSE Px(HEIGHT_THRESHOLD + HOST_TOLERANCE)

\* The bound of C10 with the startup buffer allowed for. It fails as well: the
\* displayed height does not follow a minHeight raised after mount, and the
\* frame-aligned script stays silent on a small H once it has posted 0.
SettledWithinAllowance ==
    (Settled(0) /\ Quiescent) => Distance(minHeight) <= Allowance

\* ------------------------------------------------ claims on the minimum
\* C11: a change of the minHeight prop leaves the displayed height as it is,
\* and every displayed-height update handleMessage accepts yields a value at
\* or above the minHeight then in force.
C11_MinHeightRaisesFloorOnly ==
    [][/\ (minHeight' /= minHeight => height' = height)
       /\ ((last'.op = "handle" /\ height' /= height) => height' >= minHeight')]_vars

\* The prop is no longer the default, and the update just accepted was raised
\* to it.
C11_Witness ==
    /\ last.op = "handle"
    /\ minHeight = Px(DEFAULT_MIN_HEIGHT + 1)
    /\ last.calls = <<minHeight>>
    /\ height = minHeight

\* ------------------------------------------------------ claims on reload
\* C12: a reload starts the monitor with lastSentHeight = 0 and only the
\* evaluation its own start schedules, whatever the previous load left, and
\* the first notification of the new load carries the startup buffer again:
\* it is ceil(M + 10), M the largest strategy value.
C12_ReloadRestoresBuffer ==
    [][/\ (loads' > loads
             => (lastSentHeight' = Num(0) /\ pending' = StartPending(variant, dom')))
       /\ ((EvalStep /\ loads > 1 /\ ~emitted.any /\ last'.posted /= <<>>
              /\ IsNum(StrategyMax(variant, dom)) /\ StrategyMax(variant, dom).n > 0)
             => last'.posted[1] =
                  Num(CeilUnits(StrategyMax(variant, dom).n + Px(STARTUP_BUFFER))))]_vars

\* ------------------------------------------------------ claims on styles
\* A numeric string: blanks around an optional sign and digits, nothing else.
RECURSIVE DropTrailingBlanks(_)
DropTrailingBlanks(chars) ==
    IF chars /= <<>> /\ chars[Len(chars)] = " "
    THEN DropTrailingBlanks(SubSeq(chars, 1, Len(chars) - 1))
    ELSE chars

IsNumericString(chars) ==
    LET body == DropTrailingBlanks(SkipBlanks(chars))
        unsigned == IF body /= <<>> /\ Head(body) = "-" THEN Tail(body) ELSE body
    IN  unsigned /= <<>> /\ \A i \in DOMAIN unsigned : IsDigit(unsigned[i])

\* C13: the style object the View gets has exactly the supplied keys; a
\* numeric string under a key containing 'borderWidth' has become its number,
\* and every other entry is the supplied one unmodified.
C13_OnlyNumericBorderWidthCoerced ==
    (styleOut.op = "view" /\ styleIn.given)
        => /\ styleOut.style.given
           /\ Len(styleOut.style.entries) = Len(styleIn.entries)
           /\ \A i \in DOMAIN styleIn.entries :
                LET key == styleIn.entries[i][1]
                    value == styleIn.entries[i][2]
                    applied == styleOut.style.entries[i]
                IN  /\ applied[1] = key
                    /\ applied[2] =
                         IF IncludesBorderWidth(key) /\ value.t = "str"
                              /\ IsNumericString(value.s)
                         THEN ParseFloat(value.s)
                         ELSE value

\* The value the wrapper style holds under a key, as a sequence: empty when the
\* key is absent.
ValuesUnder(style, key) ==
    LET at == { i \in DOMAIN style : style[i][1] = key }
    IN  IF at = {} THEN <<>> ELSE <<style[CHOOSE i \in at : TRUE][2]>>

\* C14: whatever container style the caller passes, none included, the
\* #outer-wrapper style holds every default entry, with the caller's value
\* where the caller passes that key, and every further key of the caller.
C14_DefaultsMergedWithCaller ==
    styleOut.op = "html"
        => LET wrapper == styleOut.style.entries
               caller == styleIn.entries
           IN  /\ \A i \in DOMAIN InitialStyles :
                    LET key == InitialStyles[i][1]
                        own == ValuesUnder(caller, key)
                    IN  ValuesUnder(wrapper, CssKey(key)) =
                          IF own /= <<>> THEN own ELSE <<InitialStyles[i][2]>>
               /\ \A i \in DOMAIN caller :
                    ValuesUnder(wrapper, CssKey(caller[i][1])) = <<caller[i][2]>>

\* ------------------------------------------------- claims on the closed loop
\* A step in which a notification is emitted.
EmitStep == EvalStep /\ last'.posted /= <<>>

\* The height of the content by itself: what the script measures in a viewport
\* of no height.
Intrinsic == StrategyMax(variant, InViewport(dom, 0)).n

\* The tallest the loop may make the View: the content or the minimum,
\* whichever is taller, and the startup buffer of the first notification.
LoopCeiling == Max2(CeilUnits(Intrinsic), minHeight) + Px(STARTUP_BUFFER)

\* C15: with the viewport as tall as the displayed height and content of fixed
\* height, the displayed height never grows beyond the content (or the
\* minimum) plus the startup buffer, and from some point on no notification is
\* emitted and the displayed height no longer changes, however the calls of
\* sendHeightUpdate, the evaluations, the deliveries, the layouts and the resize
\* events interleave.
C15_LoopComesToRest ==
    /\ [](height <= LoopCeiling)
    /\ <>[][~EmitStep /\ height' = height]_vars

\* A notification made the View taller, the viewport followed, the resize
\* listener called sendHeightUpdate, and the evaluation it scheduled (no timer
\* or observer has called since the script start) emitted nothing: at rest.
C15_Witness ==
    /\ "resize" \in clock.listeners
    /\ budget = MaxEvents
    /\ height > minHeight
    /\ dom.docClientHeight = height
    /\ ~clock.resized
    /\ Quiescent
    /\ last.op = "eval"
    /\ last.posted = <<>>

\* ------------------------------------------- claims on the delivered height
\* C16 (as stated): once every notification emitted has been delivered, the
\* displayed height is max(h, minHeight), h the height of the last
\* notification emitted (minHeight when none was emitted).
C16_DisplayedIsLastEmitted ==
    queue = <<>>
        => height = IF emitted.any THEN MathMax(emitted.value, Num(minHeight)).n
                    ELSE minHeight

\* C16 (amended): once every notification emitted has been delivered, the
\* displayed height is within the host tolerance of max(h, minHeight), h the
\* last positive height emitted (minHeight when none was).
C16_DisplayedNearLastPositive ==
    queue = <<>>
        => Abs(height - Max2(lastPositive, minHeight)) <= Px(HOST_TOLERANCE)

\* All delivered, and the displayed height is not the last one emitted.
C16_Witness ==
    /\ queue = <<>>
    /\ emitted.any
    /\ lastPositive > minHeight
    /\ height /= lastPositive

\* ------------------------------------------------ claims on the scheduling
\* C17: at most one evaluation is pending at any moment; the calls of
\* sendHeightUpdate made since the last evaluation leave exactly one pending,
\* which runs once, posts at most one notification, and measures the document
\* as it is when it runs.
C17_OneEvaluationPending ==
    /\ [](pending <= 1)
    /\ [][/\ (calls' /= calls /\ timer' = "live") => pending' = 1
          /\ EvalStep => /\ calls >= 1
                         /\ pending = 1
                         /\ pending' = 0
                         /\ Len(last'.posted) <= 1
                         /\ last'.posted
                              = EvalResult(variant, dom, lastSentHeight).posted]_vars

\* Two or more calls, then a change of content, then the one evaluation,
\* which posted.
C17_Witness ==
    /\ last.op = "eval"
    /\ calls >= 2
    /\ ~triggered
    /\ pending = 0
    /\ last.posted /= <<>>

\* ---------------------------------------------- claims on a throwing cycle
\* C18: an evaluation whose measuring throws posts nothing, leaves
\* lastSentHeight as it was, lets no exception out of the callback and leaves
\* no handle pending; after it, a call of sendHeightUpdate schedules one
\* evaluation and an evaluation posts what it measures.
C18_ThrowingCycleIsSkipped ==
    [][/\ (EvalStep /\ last'.threw)
            => /\ last'.posted = <<>>
               /\ queue' = queue
               /\ emitted' = emitted
               /\ lastSentHeight' = lastSentHeight
               /\ ~last'.escaped
               /\ pending' = 0
               /\ timer' /= "live"
       /\ (thrown /\ calls' /= calls) => (pending' = 1 /\ timer' = "live")
       /\ (thrown /\ EvalStep)
            => /\ last'.posted = EvalResult(variant, dom, lastSentHeight).posted
               /\ lastSentHeight' = EvalResult(variant, dom, lastSentHeight).lastSent]_vars

\* An evaluation threw, and a later evaluation posted a notification.
C18_Witness ==
    /\ thrown
    /\ last.op = "eval"
    /\ ~last.threw
    /\ last.posted /= <<>>

\* ------------------------------------------- claims on what is transmitted
\* The height field the host reads out of the latest notification of the
\* load, 0 when none has been posted.
LastTransmitted == IF emitted.any THEN JsonNumber(emitted.value) ELSE Num(0)

\* C19: lastSentHeight is the height carried by the latest notification of
\* the current load, 0 when none has been posted.
C19_LastSentIsLastTransmitted == lastSentHeight = LastTransmitted

\* C20: every notification the script posts has type "height" and carries a
\* positive whole number of pixels.
C20_PostsPositiveIntegers ==
    [][(EvalStep /\ last'.posted /= <<>>)
         => LET posted == Notification(last'.posted[1])
            IN  /\ posted.type = "height"
                /\ IsNum(posted.height)
                /\ posted.height.n > 0
                /\ posted.height.n % PX = 0]_vars

\* --------------------------------------------------- claims on script start
\* The re-check has stopped: its count has passed MAX_CHECKS.
RecheckStopped == clock.checkCount > MAX_CHECKS

\* C21: in the debounced script, over content of positive height with KaTeX
\* nodes, the first notification has been posted by the time the periodic
\* re-check stops.
C21_FirstNotificationBeforeRecheckStops ==
    (/\ variant = "debounced"
     /\ dom.hasBody
     /\ dom.katex /= <<>>
     /\ IsNum(MaxStrategyHeight(dom))
     /\ RecheckStopped)
        => emitted.any

\* The setTimeout calls of the script body from its n-th call on.
DelayedCalls(made, n) ==
    { i \in n..Len(made) : made[i].call = "setTimeout" /\ made[i].delay > 0 }

\* C22: on a document with a body the script body installs the observers
\* first, then calls sendHeightUpdate at once, then sets at least two timers
\* that call it later; each of the timers, when it fires, schedules an
\* evaluation.
C22_ObserversThenImmediateThenStaggered ==
    /\ [](LET made == clock.initialCalls
          IN  clock.started =>
              /\ Len(made) >= 2
              /\ made[1].call = "setupObservers"
              /\ made[2].call = "sendHeightUpdate"
              /\ Cardinality(DelayedCalls(made, 3)) >= 2)
    /\ [][clock'.event = "trigger" => (pending' = 1 /\ timer' = "live")]_vars

\* C23: with or without ResizeObserver, once the observers are set up, a
\* mutation of the content subtree, a resize of the viewport and the load
\* event each schedule an evaluation;
\* without ResizeObserver the mutation listener is installed and the delayed
\* calls of sendHeightUpdate are set.
C23_EveryEventSchedules ==
    /\ []((clock.started /\ ~clock.hasResizeObserver)
            => /\ "mutation" \in clock.listeners
               /\ Cardinality(DelayedCalls(clock.initialCalls, 1)) >= 2)
    /\ [][(clock.started /\ clock'.event \in PageEvents)
            => /\ pending' = 1
               /\ timer' = "live"
               /\ clock'.evalDue = clock.now + EvalDelay(variant)]_vars
====
